---- MODULE Spec2Model ----
(***************************************************************************)
(* Model of gradient-slice (src/src/lib.rs): the Gradient iterator, a      *)
(* cursor (start, end, width, wide, max_width) over an owned Vec that      *)
(* yields every contiguous window, narrowest widths first.                 *)
(*                                                                         *)
(* One Gradient value is modelled.  with_max_width consumes the value and  *)
(* returns the re-configured clone, so it is an in-place update here.      *)
(* rets and prior are history variables: rets is the list of values that   *)
(* next() has returned on the present value, prior counts the next() calls *)
(* made on the value before it was last re-configured.                     *)
(*                                                                         *)
(* other holds a second Gradient, made from the first by clone() and        *)
(* with_max_width, for the properties that speak of two instances; it is   *)
(* absent in Spec and made by derive in SpecTwo.                            *)
(***************************************************************************)
EXTENDS Integers, Sequences, FiniteSets, TLC

\* ---- bounds ------------------------------------------------------------
MaxLen == 3        \* longest input Vec
ExtraCalls == 3    \* next() calls explored beyond the MaxLen(MaxLen+1)/2 windows

\* the elements a Vec may hold
Values == {0, 1}

Triangle(n) == (n * (n + 1)) \div 2

MaxCalls == Triangle(MaxLen) + ExtraCalls

Inputs == UNION {[1..n -> Values] : n \in 0..MaxLen}

\* Option<usize>: None is NoMax, Some(w) is w
NoMax == -1
MaxWidths == 0..(MaxLen + 1)

VARIABLES input, start, end, width, wide, max_width, panicked, rets, prior,
          other

vars ==
    <<input, start, end, width, wide, max_width, panicked, rets, prior, other>>

\* no second Gradient has been made
NoOther == [present |-> FALSE]

\* the Gradient value held in the variables
self ==
    [input |-> input, start |-> start, end |-> end, width |-> width,
     wide |-> wide, max_width |-> max_width]

\* ---- values returned by next() -------------------------------------------
\* Option<&[G]>: a slice is a pointer into the Vec (the offset of its first
\* element) and the elements it covers
None == [kind |-> "None"]
Some(slice) == [kind |-> "Some", ptr |-> slice.ptr, win |-> slice.win]
\* the call did not return: it panicked
Panic == [kind |-> "Panic"]

\* ---- accessors -----------------------------------------------------------
len(g) == Len(g.input)

\* range(): start()..end()
range(g) == <<g.start, g.end>>

\* indexing a Vec by a range panics when the range is decreasing or runs
\* past the end of the Vec.  A negative start stands for a usize that
\* wrapped around (see Slide), which is above every end.
RangeOk(g) ==
    /\ range(g)[1] >= 0
    /\ range(g)[1] <= range(g)[2]
    /\ range(g)[2] <= len(g)

\* window(): &self.input[self.range()]
window(g) ==
    [ptr |-> range(g)[1], win |-> SubSeq(g.input, range(g)[1] + 1, range(g)[2])]

\* finished() variants that a slip in lines 100-110 would give
\* the width test left out
finishedEndOnly(g) ==
    IF len(g) = 0 THEN TRUE
    ELSE IF g.end = len(g) THEN TRUE
    ELSE FALSE

\* the empty-input test left out
finishedNoEmpty(g) ==
    IF g.end = len(g) /\ g.width = len(g) THEN TRUE
    ELSE FALSE

\* the width test one too far
finishedLate(g) ==
    IF len(g) = 0 THEN TRUE
    ELSE IF g.end = len(g) /\ g.width > len(g) THEN TRUE
    ELSE FALSE

\* the full-width test left out
finishedEmptyOnly(g) ==
    IF len(g) = 0 THEN TRUE
    ELSE FALSE

finished(g) ==
    IF len(g) = 0 THEN TRUE
    ELSE IF g.end = len(g) /\ g.width = len(g) THEN TRUE
    ELSE FALSE

\* ---- construction --------------------------------------------------------
\* new() starting with wide unset
newWideFalse(s) ==
    [input |-> s, start |-> 0, end |-> 0, width |-> 1, wide |-> FALSE,
     max_width |-> NoMax]

\* Gradient::new(s)
new(s) ==
    [input |-> s, start |-> 0, end |-> 0, width |-> 1, wide |-> TRUE,
     max_width |-> NoMax]

Init ==
    /\ \E s \in Inputs :
         /\ input = new(s).input
         /\ start = new(s).start
         /\ end = new(s).end
         /\ width = new(s).width
         /\ wide = new(s).wide
         /\ max_width = new(s).max_width
    /\ panicked = FALSE
    /\ rets = <<>>
    /\ prior = 0
    /\ other = NoOther

\* ---- next ----------------------------------------------------------------
\* the roll-over without line 70 (end = width)
AdvanceNoReset(g) ==
    IF ~g.wide
      THEN [g EXCEPT !.wide = TRUE, !.width = g.width + 1, !.start = 0,
                     !.end = g.end + 1]
      ELSE [g EXCEPT !.end = g.end + 1]

\* the roll-over stepping width by two
AdvanceDouble(g) ==
    IF ~g.wide
      THEN [g EXCEPT !.wide = TRUE, !.width = g.width + 2, !.start = 0,
                     !.end = g.width + 2]
      ELSE [g EXCEPT !.end = g.end + 1]

\* the roll-over taken when wide is set
AdvanceInverted(g) ==
    IF g.wide
      THEN [g EXCEPT !.wide = TRUE, !.width = g.width + 1, !.start = 0,
                     !.end = g.width + 1]
      ELSE [g EXCEPT !.end = g.end + 1]

\* the roll-over keeping the width
AdvanceSameWidth(g) ==
    IF ~g.wide
      THEN [g EXCEPT !.wide = TRUE, !.start = 0, !.end = g.width]
      ELSE [g EXCEPT !.end = g.end + 1]

\* lines 65-71: end += 1, then the roll-over to the next width
Advance(g) ==
    IF ~g.wide
      THEN [g EXCEPT !.wide = TRUE, !.width = g.width + 1, !.start = 0,
                     !.end = g.width + 1]
      ELSE [g EXCEPT !.end = g.end + 1]

\* line 73 off by one
SlideOffByOne(g) == [g EXCEPT !.start = g.end - g.width + 1]

\* line 73: start = end - width in usize.  When end < width a build without
\* overflow checks wraps the difference around to v = 2^64 + end - width;
\* TLC's integers have 32 bits, so v is held as v - 2^64, a negative number,
\* and RangeOk reads a negative start as the large offset it stands for.
Slide(g) == [g EXCEPT !.start = g.end - g.width]

\* the right edge taken one element early
EdgeEarly(g) == IF g.end = len(g) - 1 THEN [g EXCEPT !.wide = FALSE] ELSE g

\* wide never cleared
EdgeNever(g) == g

\* line 74-76: the pass reached the right edge
Edge(g) == IF g.end = len(g) THEN [g EXCEPT !.wide = FALSE] ELSE g

\* the cap compared with >=, with one to spare, and with equality
CappedGe(g) == g.max_width # NoMax /\ g.width >= g.max_width

CappedOff(g) == g.max_width # NoMax /\ g.width > g.max_width + 1

CappedEq(g) == g.max_width # NoMax /\ g.width = g.max_width + 1

\* the cap with a max_width of 0 read as no cap
CappedNonZero(g) == g.max_width > 0 /\ g.width > g.max_width

\* line 77-81: the cap
Capped(g) == g.max_width # NoMax /\ g.width > g.max_width

\* next() testing the cap before it moves the cursor
NextOfCapFirst(g, overflow_checks) ==
    IF finished(g) THEN [g |-> g, ret |-> None]
    ELSE LET a == Advance(g) IN
         IF Capped(a) THEN [g |-> g, ret |-> None]
         ELSE IF a.end < a.width /\ overflow_checks
           THEN [g |-> a, ret |-> Panic]
           ELSE LET e == Edge(Slide(a)) IN
                IF RangeOk(e)
                  THEN [g |-> e, ret |-> Some(window(e))]
                  ELSE [g |-> e, ret |-> Panic]

\* the whole of next(): the value after the call and what the call returned.
\* overflow_checks tells whether the build panics on usize overflow.
NextOf(g, overflow_checks) ==
    IF finished(g) THEN [g |-> g, ret |-> None]
    ELSE LET a == Advance(g) IN
         IF a.end < a.width /\ overflow_checks
           THEN [g |-> a, ret |-> Panic]
           ELSE LET e == Edge(Slide(a)) IN
                IF Capped(e) THEN [g |-> e, ret |-> None]
                ELSE IF RangeOk(e)
                  THEN [g |-> e, ret |-> Some(window(e))]
                  ELSE [g |-> e, ret |-> Panic]

\* k calls of next() in a row on g: the value they leave and what the k-th
\* returns (on a build with overflow checks)
RECURSIVE After(_, _)
After(g, k) == IF k = 0 THEN g ELSE NextOf(After(g, k - 1), TRUE).g

RetAt(g, k) == NextOf(After(g, k - 1), TRUE).ret

next ==
    /\ ~panicked
    /\ Len(rets) + prior < MaxCalls
    /\ \E overflow_checks \in BOOLEAN :
         LET r == NextOf(self, overflow_checks) IN
           /\ input' = r.g.input
           /\ start' = r.g.start
           /\ end' = r.g.end
           /\ width' = r.g.width
           /\ wide' = r.g.wide
           /\ max_width' = r.g.max_width
           /\ rets' = Append(rets, r.ret)
           /\ panicked' = (r.ret = Panic)
    /\ prior' = prior
    /\ other' = other

\* ---- with_max_width ------------------------------------------------------
\* with_max_width building the returned value anew
WithMaxWidthAnew(g, w) == [new(g.input) EXCEPT !.max_width = w]

\* clone self, set max_width = Some(w) on the clone, return it
WithMaxWidthOf(g, w) == [g EXCEPT !.max_width = w]

\* self is consumed and the variables hold the returned value from now on:
\* no next() has been called on it yet
with_max_width(w) ==
    /\ ~panicked
    /\ LET r == WithMaxWidthOf(self, w) IN
         /\ input' = r.input
         /\ start' = r.start
         /\ end' = r.end
         /\ width' = r.width
         /\ wide' = r.wide
         /\ max_width' = r.max_width
    /\ prior' = prior + Len(rets)
    /\ rets' = <<>>
    /\ panicked' = panicked
    /\ other' = other

Configure == \E w \in MaxWidths : with_max_width(w)

Next == next \/ Configure

Spec == Init /\ [][Next]_vars

\* ---- two instances --------------------------------------------------------
\* derive(Clone): every field is cloned, the Vec element by element
Clone(g) ==
    [input |-> [i \in 1..Len(g.input) |-> g.input[i]], start |-> g.start,
     end |-> g.end, width |-> g.width, wide |-> g.wide,
     max_width |-> g.max_width]

\* self.clone().with_max_width(w): the receiver stays with the caller and
\* other is the value returned.  from, at and arg are history: the receiver
\* and the number of its return values when the call is made, and w.
derive(w) ==
    /\ ~panicked
    /\ ~other.present
    /\ other' = [present |-> TRUE, g |-> WithMaxWidthOf(Clone(self), w),
                 rets |-> <<>>, from |-> self, at |-> Len(rets), arg |-> w]
    /\ UNCHANGED <<input, start, end, width, wide, max_width, panicked, rets,
                   prior>>

Derive == \E w \in MaxWidths : derive(w)

\* next() on the second Gradient
nextOther ==
    /\ other.present
    /\ \A k \in 1..Len(other.rets) : other.rets[k] # Panic
    /\ prior + other.at + Len(other.rets) < MaxCalls
    /\ \E overflow_checks \in BOOLEAN :
         LET r == NextOf(other.g, overflow_checks) IN
           other' = [other EXCEPT !.g = r.g, !.rets = Append(other.rets, r.ret)]
    /\ UNCHANGED <<input, start, end, width, wide, max_width, panicked, rets,
                   prior>>

NextTwo == next \/ Derive \/ nextOther

SpecTwo == Init /\ [][NextTwo]_vars

\* a caller that keeps calling next(), as a consumer loop does
SpecLive == Spec /\ WF_vars(next)

\* ==== properties ==========================================================
Last(seq) == seq[Len(seq)]

\* the number of next() calls made so far on the value and its predecessors
calls == prior + Len(rets)

\* the value was configured, if at all, before any next() call
fresh == prior = 0

\* the pass of width w over inp: every offset from 0 to Len(inp) - w
Pass(inp, w) ==
    [i \in 1..(Len(inp) - w + 1) |->
        [kind |-> "Some", ptr |-> i - 1, win |-> [j \in 1..w |-> inp[i - 1 + j]]]]

\* the passes of width 1..w one after the other
RECURSIVE Passes(_, _)
Passes(inp, w) == IF w = 0 THEN <<>> ELSE Passes(inp, w - 1) \o Pass(inp, w)

\* sum over w = 1..maxw of (n - w + 1)
RECURSIVE SumCount(_, _)
SumCount(n, maxw) == IF maxw = 0 THEN 0 ELSE SumCount(n, maxw - 1) + (n - maxw + 1)

\* the k-th return value of a run that yields the windows ws and then None
Yield(ws, k) == IF k <= Len(ws) THEN ws[k] ELSE None

\* C1: on a non-empty input with no max_width, the successive return values
\* of next() on a fresh Gradient are the windows input[s .. s+w) for
\* w = 1..N and, within each w, s = 0..N-w, both increasing, and None after
\* the last of them.
C1_Order ==
    (fresh /\ max_width = NoMax /\ Len(input) >= 1) =>
        \A k \in 1..Len(rets) : rets[k] = Yield(Passes(input, Len(input)), k)

C1_Witness ==
    /\ fresh /\ max_width = NoMax /\ Len(input) >= 3
    /\ Len(rets) = Triangle(Len(input)) + 1
    /\ Last(rets) = None
    /\ rets[Len(input) + 1].ptr = 0
    /\ Len(rets[Len(input) + 1].win) = 2

\* C2: on an input of length N >= 1 with no max_width a fresh Gradient
\* yields N(N+1)/2 windows before its first None, and the last of them is
\* the whole input (start 0, end N, width N).
C2_Count ==
    (fresh /\ max_width = NoMax /\ Len(input) >= 1) =>
        LET N == Len(input)
            T == Triangle(Len(input))
        IN /\ \A k \in 1..Len(rets) : (k <= T) <=> (rets[k].kind = "Some")
           /\ \A k \in 1..Len(rets) : (k > T) <=> (rets[k] = None)
           /\ Len(rets) >= T =>
                /\ rets[T].ptr = 0
                /\ Len(rets[T].win) = N
                /\ rets[T].win = input
           /\ Len(rets) = T => (start = 0 /\ end = N /\ width = N)

C2_Witness ==
    /\ fresh /\ max_width = NoMax /\ Len(input) >= 2
    /\ Len(rets) = Triangle(Len(input)) + 1
    /\ rets[Len(rets)] = None
    /\ rets[Len(rets) - 1].win = input

\* C3: with max_width W, 1 <= W < N, a fresh Gradient yields the windows of
\* width 1..W in the order of the uncapped run, sum over w = 1..W of
\* (N - w + 1) of them, none wider than W, and None from then on.
C3_Capped ==
    (fresh /\ max_width >= 1 /\ max_width < Len(input)) =>
        LET N == Len(input)
            all == Passes(input, N)
            cnt == SumCount(N, max_width)
        IN /\ \A k \in 1..Len(rets) :
                rets[k] = (IF k <= cnt THEN all[k] ELSE None)
           /\ \A k \in 1..Len(rets) :
                rets[k].kind = "Some" => Len(rets[k].win) <= max_width
           /\ Len(rets) >= cnt => Len(rets[cnt].win) = max_width

C3_Witness ==
    /\ fresh /\ max_width = 2 /\ Len(input) >= 3
    /\ Len(rets) >= SumCount(Len(input), 2) + 2
    /\ Last(rets) = None
    /\ rets[SumCount(Len(input), 2)].kind = "Some"

\* C4: on an empty input, with or without max_width, every next() returns
\* None, no window is produced and no call fails.
C4_Empty ==
    Len(input) = 0 =>
        /\ \A k \in 1..Len(rets) : rets[k] = None
        /\ ~panicked

C4_Witness ==
    /\ Len(input) = 0
    /\ max_width # NoMax
    /\ prior >= 1
    /\ Len(rets) >= 2

\* C5: in every state after the first next() call, whatever the input and
\* the max_width, also after next() has returned None,
\* 0 <= start <= end <= len(input); so end - width does not underflow and
\* window() stays inside the input: no call fails.
C5_Bounds ==
    calls >= 1 =>
        /\ 0 <= start /\ start <= end /\ end <= Len(input)
        /\ end >= width \/ Len(input) = 0
        /\ RangeOk(self)
        /\ ~panicked

C5_Witness ==
    /\ calls >= 3
    /\ max_width # NoMax /\ width > max_width
    /\ Len(rets) >= 2 /\ Last(rets) = None /\ rets[Len(rets) - 1] = None
    /\ start > 0 /\ end = Len(input)

\* C6: whenever next() returns a window, end - start = width in the state
\* it leaves, and the window has width elements.
C6_Width ==
    (rets # <<>> /\ Last(rets).kind = "Some") =>
        /\ end - start = width
        /\ Len(Last(rets).win) = width
        /\ Last(rets).ptr = start

C6_Witness ==
    /\ rets # <<>> /\ Last(rets).kind = "Some"
    /\ width = 2 /\ start = 1 /\ end = 3

\* C7 as stated: with max_width set to W the cursor's width never exceeds W
\* in any reachable state.
C7_WidthNeverAboveMax ==
    max_width # NoMax => width <= max_width

\* C7 amended: with max_width set to W, the cursor's width does not exceed
\* W in a state left by a next() call that returned a window; the call that
\* returns None because of the cap leaves width above W.
C7_WindowWidthWithinMax ==
    (max_width # NoMax /\ rets # <<>> /\ Last(rets).kind = "Some") =>
        /\ width <= max_width
        /\ Len(Last(rets).win) <= max_width

C7_Witness ==
    /\ max_width # NoMax /\ max_width < Len(input)
    /\ rets # <<>> /\ Last(rets).kind = "Some"
    /\ width = max_width /\ end = Len(input)

\* the last window among the return values rs
LastSome(rs) ==
    rs[CHOOSE k \in 1..Len(rs) :
          /\ rs[k].kind = "Some"
          /\ \A j \in (k + 1)..Len(rs) : rs[j].kind # "Some"]

\* start(), end(), width(), range() and window() describe the window w
Describes(w) ==
    /\ start = w.ptr
    /\ end = w.ptr + Len(w.win)
    /\ width = Len(w.win)
    /\ range(self) = <<w.ptr, w.ptr + Len(w.win)>>
    /\ RangeOk(self)
    /\ Some(window(self)) = w

AfterNoneWithWindow ==
    /\ Len(input) >= 1
    /\ rets # <<>> /\ Last(rets) = None
    /\ \E k \in 1..Len(rets) : rets[k].kind = "Some"

\* C8 as stated: after next() has returned None the accessors describe the
\* last window next() returned, for every non-empty input and every
\* max_width under which a window was produced.
C8_AccessorsAfterNone ==
    AfterNoneWithWindow => Describes(LastSome(rets))

\* C8 amended: the same, for a Gradient with no max_width or with a
\* max_width of at least len(input), where None comes from the finished
\* check alone.
C8_AccessorsAfterFinished ==
    (AfterNoneWithWindow /\ (max_width = NoMax \/ max_width >= Len(input))) =>
        Describes(LastSome(rets))

C8_Witness ==
    /\ AfterNoneWithWindow
    /\ max_width >= Len(input)
    /\ Len(input) >= 2
    /\ Len(rets) >= 3 /\ rets[Len(rets) - 1] = None

\* C9: while max_width is not changed, once next() has returned None every
\* later next() returns None, whichever check gave the first None.
C9_NoneStays ==
    [][(rets # <<>> /\ Last(rets) = None /\ Len(rets') = Len(rets) + 1)
          => Last(rets') = None]_vars

C9_Witness ==
    /\ Len(rets) >= 3
    /\ rets[Len(rets) - 2].kind = "Some"
    /\ rets[Len(rets) - 1] = None
    /\ Last(rets) = None
    /\ ~finished(self)
    /\ width > max_width /\ start > 0

\* the cursor is the full-width window
FullWidth == Len(input) >= 1 /\ start = 0 /\ end = Len(input) /\ width = Len(input)

\* C10: once the full-width window (start 0, end and width len(input)) has
\* been reached, a further next() returns None and leaves start, end, width,
\* wide and max_width as they are.
C10_FullWidthFixed ==
    [][(FullWidth /\ Len(rets') = Len(rets) + 1)
          => /\ Last(rets') = None
             /\ UNCHANGED <<start, end, width, wide, max_width>>]_vars

C10_Witness ==
    /\ FullWidth
    /\ Len(input) >= 2
    /\ Len(rets) >= 3
    /\ rets[Len(rets) - 1] = None /\ Last(rets) = None

\* C12: for every input length, a fresh Gradient configured with
\* with_max_width(0) yields no window: its first and every later next()
\* returns None, and no call fails.
C12_ZeroMax ==
    (fresh /\ max_width = 0) =>
        /\ \A k \in 1..Len(rets) : rets[k] = None
        /\ ~panicked

C12_Witness ==
    /\ fresh /\ max_width = 0
    /\ Len(input) >= 2
    /\ Len(rets) >= 3
    /\ Last(rets) = None
    /\ width = 2

\* C13: for every input of length N and every W >= N, a fresh Gradient
\* configured with with_max_width(W) returns, call for call, what a fresh
\* Gradient over the same input with no max_width returns.
C13_WideMaxNoEffect ==
    (fresh /\ max_width # NoMax /\ max_width >= Len(input)) =>
        \A k \in 1..Len(rets) : rets[k] = RetAt(new(input), k)

C13_Witness ==
    /\ fresh /\ max_width = Len(input)
    /\ Len(input) >= 2
    /\ Len(rets) = Triangle(Len(input)) + 1
    /\ Last(rets) = None
    /\ rets[Len(rets) - 1].win = input

\* C14 as stated: from construction onward and for every input, the empty
\* one included, width never decreases across next() calls and never
\* exceeds len(input).
C14_WidthWithinLen ==
    /\ [](width <= Len(input))
    /\ [][width' >= width]_vars

\* C14 amended: width never decreases, and on a non-empty input it never
\* exceeds len(input); on the empty input it is 1 from construction onward.
C14_WidthWithinLenNonEmpty ==
    /\ [](IF Len(input) >= 1 THEN width <= Len(input) ELSE width = 1)
    /\ [][width' >= width]_vars

C14_Witness ==
    /\ Len(input) >= 2
    /\ width = Len(input)
    /\ max_width # NoMax /\ max_width < width
    /\ Len(rets) >= 2

\* the cursor of a returned window: start, end, width
StartOf(r) == r.ptr
EndOf(r) == r.ptr + Len(r.win)
WidthOf(r) == Len(r.win)

\* C15: two consecutive windows returned by next(), (s1, e1, w1) and then
\* (s2, e2, w2), are either a slide (e1 < len, w2 = w1, s2 = s1 + 1,
\* e2 = e1 + 1) or a roll-over from the right edge (e1 = len, w2 = w1 + 1,
\* s2 = 0, e2 = w2); a completed fresh run holds each width w it yields
\* N - w + 1 times, consecutively.
C15_Consecutive ==
    /\ \A k \in 1..(Len(rets) - 1) :
         (rets[k].kind = "Some" /\ rets[k + 1].kind = "Some") =>
            LET a == rets[k]
                b == rets[k + 1]
            IN \/ /\ EndOf(a) < Len(input)
                  /\ WidthOf(b) = WidthOf(a)
                  /\ StartOf(b) = StartOf(a) + 1
                  /\ EndOf(b) = EndOf(a) + 1
               \/ /\ EndOf(a) = Len(input)
                  /\ WidthOf(b) = WidthOf(a) + 1
                  /\ StartOf(b) = 0
                  /\ EndOf(b) = WidthOf(b)
    /\ (fresh /\ rets # <<>> /\ Last(rets) = None) =>
         \A w \in 1..Len(input) :
            LET at == {k \in 1..Len(rets) :
                          rets[k].kind = "Some" /\ WidthOf(rets[k]) = w}
            IN /\ (max_width = NoMax \/ w <= max_width) =>
                    Cardinality(at) = Len(input) - w + 1
               /\ (max_width # NoMax /\ w > max_width) => at = {}
               /\ \A i, j \in at : \A k \in i..j : k \in at

C15_Witness ==
    /\ fresh /\ Len(input) >= 3
    /\ Len(rets) >= 5
    /\ Last(rets) = None
    /\ rets[Len(rets) - 1].kind = "Some"
    /\ WidthOf(rets[Len(rets) - 1]) >= 2

\* a step that is a next() call which passed the finished check
AdvancingCall == Len(rets') = Len(rets) + 1 /\ ~finished(self)

\* C16 as stated: wide set at the start of a next() call that passes the
\* finished check makes the call start a new width pass (width + 1,
\* start = 0, end = width); wide unset makes it slide the window right by
\* one at the same width.
C16_WideMeansNewPass ==
    [][AdvancingCall =>
          IF wide
            THEN width' = width + 1 /\ start' = 0 /\ end' = width'
            ELSE width' = width /\ start' = start + 1 /\ end' = end + 1]_vars

\* C16 amended: the flag reads the other way round.  wide unset makes the
\* call start a new width pass (width + 1, start = 0, end = width); wide
\* set makes it keep the width and move end right by one with
\* start = end - width, which slides the window by one on every call but
\* the first, where start stays 0.
C16_WideMeansSlide ==
    [][AdvancingCall =>
          IF ~wide
            THEN width' = width + 1 /\ start' = 0 /\ end' = width'
            ELSE /\ width' = width /\ end' = end + 1
                 /\ start' = end' - width'
                 /\ start' = (IF calls = 0 THEN 0 ELSE start + 1)]_vars

C16_Witness ==
    /\ width = 2 /\ start = 0 /\ end = 2 /\ wide
    /\ Len(rets) >= 4
    /\ Len(input) = 3

\* C17: on a non-empty input, whatever the max_width, in every state
\* reached by next() calls and in the initial one, wide is unset exactly
\* when end = len(input).
C17_WideIffNotAtEdge ==
    Len(input) >= 1 => (~wide <=> end = Len(input))

C17_Witness ==
    /\ Len(input) >= 3
    /\ ~wide /\ end = Len(input) /\ width = 2
    /\ max_width # NoMax
    /\ Len(rets) >= 2

\* C18: the cursor does not depend on max_width.  After k next() calls the
\* fields start, end, width and wide are those of a Gradient over the same
\* input with no max_width after k calls, whatever max_width was set and
\* whenever; calls after a None given by the cap keep moving the cursor.
C18_CursorIgnoresMax ==
    LET ref == After(new(input), calls)
    IN /\ start = ref.start
       /\ end = ref.end
       /\ width = ref.width
       /\ wide = ref.wide

C18_Witness ==
    /\ max_width = 1
    /\ fresh
    /\ Len(input) >= 3
    /\ Len(rets) >= 3
    /\ rets[Len(rets) - 2] = None
    /\ width = 3

\* C19: on an input of length N >= 1, whatever the max_width, repeated
\* next() calls reach a state where finished() holds after exactly
\* N(N+1)/2 calls, each of which changes the cursor, and no call changes it
\* from then on; a loop that stops at the first None has its None within
\* N(N+1)/2 + 1 calls.
C19_Terminates ==
    /\ [](Len(input) >= 1 => (finished(self) <=> calls >= Triangle(Len(input))))
    /\ [](Len(input) >= 1 /\ Len(rets) >= Triangle(Len(input)) + 1
            => \E k \in 1..(Triangle(Len(input)) + 1) : rets[k] = None)
    /\ [][Len(rets') = Len(rets) + 1 =>
            IF finished(self)
              THEN UNCHANGED <<start, end, width, wide>>
              ELSE <<start, end, width, wide>>' # <<start, end, width, wide>>]_vars
    /\ [](Len(input) >= 1 => <>finished(self))

C19_Witness ==
    /\ Len(input) >= 3
    /\ finished(self)
    /\ max_width # NoMax
    /\ calls = Triangle(Len(input)) + 1
    /\ rets # <<>> /\ Last(rets) = None

\* the fields of the first Gradient
fields == <<input, start, end, width, wide, max_width>>

\* C11: with_max_width(W) on a Gradient in any reachable state returns a
\* value whose input, start, end, width and wide are the receiver's and
\* whose max_width is W; the two values are independent: next() on one
\* changes no field of the other, and each goes on returning what it would
\* return alone.
C11_CopyAndIndependence ==
    /\ [][(~other.present /\ other'.present) =>
            /\ other'.g.input = input
            /\ other'.g.start = start
            /\ other'.g.end = end
            /\ other'.g.width = width
            /\ other'.g.wide = wide
            /\ other'.g.max_width = other'.arg
            /\ UNCHANGED fields]_vars
    /\ [][(other.present /\ other' # other) => UNCHANGED <<fields, rets>>]_vars
    /\ [][(other.present /\ fields' # fields) => other' = other]_vars
    /\ [](other.present =>
            /\ \A k \in 1..Len(other.rets) :
                 other.rets[k] = RetAt(WithMaxWidthOf(other.from, other.arg), k)
            /\ other.g = After(WithMaxWidthOf(other.from, other.arg),
                               Len(other.rets))
            /\ \A k \in 1..(Len(rets) - other.at) :
                 rets[other.at + k] = RetAt(other.from, k)
            /\ self = After(other.from, Len(rets) - other.at))

C11_Witness ==
    /\ other.present
    /\ other.from.start >= 1
    /\ other.arg = 1
    /\ Len(other.rets) >= 2
    /\ Len(rets) >= other.at + 2
    /\ other.g.end # end

====
